---------------------------- MODULE Spec2Model ----------------------------
(***************************************************************************)
(* A state-machine model of the PythonToolbox repository: the PDF page     *)
(* deleter (src/src/PDF_page_deleter.py), with the document / deletion /   *)
(* save path, the page render cache, the zoom and theme handlers and the   *)
(* continuous-scroll view.                                                 *)
(*                                                                         *)
(* Every handler of the window class is a function from the object's state *)
(* (the record Self) to its state after the handler returned; an action    *)
(* applies one handler and commits the result.  Signals that a handler     *)
(* emits synchronously (QSpinBox.valueChanged, QScrollBar.valueChanged)    *)
(* run their slots inside the handler, as Qt does.                         *)
(***************************************************************************)
EXTENDS Integers, Sequences, FiniteSets, TLC

(***************************************************************************)
(* Python values.  None is the empty tuple and a present value is wrapped  *)
(* in a one-element tuple, so that optional attributes stay comparable.    *)
(***************************************************************************)
None == <<>>
Some(x) == <<x>>
Val(o) == o[1]

Min(a, b) == IF a <= b THEN a ELSE b
Max(a, b) == IF a >= b THEN a ELSE b
Abs(a) == IF a >= 0 THEN a ELSE -a

RECURSIVE SumSeq(_)
SumSeq(q) == IF q = <<>> THEN 0 ELSE Head(q) + SumSeq(Tail(q))

(***************************************************************************)
(* Strings are tuples of one-character strings, so that str.replace can be *)
(* modelled by what it does.                                               *)
(***************************************************************************)
DotPdf == <<".", "p", "d", "f">>
ModifiedDotPdf == <<"_", "m", "o", "d", "i", "f", "i", "e", "d", ".", "p", "d", "f">>

\* str.replace(old, new): every non-overlapping occurrence, left to right.
RECURSIVE Replace(_, _, _)
Replace(str, old, new) ==
    IF Len(str) < Len(old) THEN str
    ELSE IF SubSeq(str, 1, Len(old)) = old
         THEN new \o Replace(SubSeq(str, Len(old) + 1, Len(str)), old, new)
         ELSE <<Head(str)>> \o Replace(Tail(str), old, new)

\* save_changes: new_pdf_path = self.pdf_path.replace('.pdf', '_modified.pdf')
NewPdfPath(path) == Replace(path, DotPdf, ModifiedDotPdf)

(***************************************************************************)
(* The environment: the files the "Open PDF" dialog can return.            *)
(***************************************************************************)
FileA == <<"a", ".", "p", "d", "f">>
FileB == <<"b", ".", "P", "D", "F">>
FileC == <<"c", ".", "p", "d", "f">>
FileL == <<"l", ".", "p", "d", "f">>

\* Page counts of the documents on disk (bounds of the model).
NPagesA == 3
NPagesB == 2
NPagesL == 22
NPagesW == 26

\* A page object of the reader / rasterizer: the file it was read from and
\* its 1-based number in that file as first found on disk.
Page(src, no) == [src |-> src, no |-> no]
PagesOf(src, n) == [i \in 1..n |-> Page(src, i)]

Missing == [kind |-> "missing", pages |-> <<>>, w |-> 0, h |-> 0]
Corrupt == [kind |-> "corrupt", pages |-> <<>>, w |-> 0, h |-> 0]
Pdf(pages, w, h) == [kind |-> "pdf", pages |-> pages, w |-> w, h |-> h]

\* The files of the model's file system.  What save_changes writes to any
\* other path is an output of the handler and is not read again.
DialogFiles == {FileA, FileB, FileC}
AllFiles == DialogFiles \cup {FileL}

\* The disk of the document specification: a.pdf (portrait pages), b.PDF
\* (upper-case extension, landscape pages) and c.pdf, which is no parsable PDF.
SmallDisk ==
    [p \in AllFiles |->
        CASE p = FileA -> Pdf(PagesOf("a", NPagesA), 600, 800)
          [] p = FileB -> Pdf(PagesOf("b", NPagesB), 600, 400)
          [] p = FileC -> Corrupt
          [] OTHER -> Missing]

\* The disk of the view specifications: a.pdf alone.
ViewDisk ==
    [p \in AllFiles |->
        IF p = FileA THEN Pdf(PagesOf("a", NPagesA), 600, 800) ELSE Missing]

\* The disk of the range specification: one document of landscape pages.
WideDisk ==
    [p \in AllFiles |->
        IF p = FileL THEN Pdf(PagesOf("l", NPagesW), 600, 400) ELSE Missing]

\* The disk of the cache specification: one long document.
LongDisk ==
    [p \in AllFiles |->
        IF p = FileL THEN Pdf(PagesOf("l", NPagesL), 600, 800) ELSE Missing]

(***************************************************************************)
(* Program constants.                                                      *)
(***************************************************************************)
max_cache_size == 20
PAGE_MARGIN == 20
BUFFER_PAGES == 1
cleanup_range == 5
SpinDefaultMaximum == 99

VARIABLES
    disk,            \* the file system: path -> content
    recent_files,    \* QSettings 'recent_files'
    recent_menu,     \* the paths that have an action in the Recent Files menu
    pdf_document,    \* None or Some([path, pages, w, h, closed])
    pdf_path,        \* None or Some(path)
    deleted_pages,   \* self.deleted_pages
    pages_to_delete, \* None while the attribute does not exist, else Some(set)
    modified_pdf,    \* None or Some(sequence of pages held by the PdfWriter)
    zoom_level,      \* a rational <<numerator, denominator>>
    is_dark_mode,
    page_cache,      \* OrderedDict: sequence of [key, pixmap] in dictionary order
    spin,            \* page_spinbox: [value, minimum, maximum]
    layout,          \* scroll_layout: sequence of page containers
    scroll_pos,      \* verticalScrollBar().value()
    viewport,        \* scroll_area.viewport(): [w, h]
    render_timer,    \* render_timer.isActive()
    single_shots,    \* pending QTimer.singleShot(50, render_visible_pages)
    crashed,         \* the process was aborted by an unhandled exception
    insert_order,    \* history: the resident cache keys, in order of insertion
    marks,           \* history: the page numbers marked since the last document load
    events,          \* the number of handlers run so far (-1: not counted)
    event,           \* what the last handler did (its name, argument, output)
    tm,              \* the TaskManagerApp window of study_relax_task_manager.py
    calc             \* the TimeDifferenceCalculator window

\* The state of the PDF page deleter.
deleter_vars ==
    <<disk, recent_files, recent_menu, pdf_document, pdf_path, deleted_pages,
      pages_to_delete, modified_pdf, zoom_level, is_dark_mode, page_cache,
      spin, layout, scroll_pos, viewport, render_timer, single_shots,
      crashed, insert_order, marks,
      events, event>>

vars == <<deleter_vars, tm, calc>>


(***************************************************************************)
(* The object's state as one record, extended with the handler's working   *)
(* fields: the exception in flight (exc), whether an exception escaped a   *)
(* slot (uncaught), the pages whose rasterization fails (fail), whether a   *)
(* handle was replaced while still open (left_open), and what the handler  *)
(* has output so far.                                                      *)
(***************************************************************************)
Self ==
    [disk |-> disk, recent_files |-> recent_files, recent_menu |-> recent_menu,
     pdf_document |-> pdf_document, pdf_path |-> pdf_path,
     deleted_pages |-> deleted_pages, pages_to_delete |-> pages_to_delete,
     modified_pdf |-> modified_pdf, zoom_level |-> zoom_level,
     is_dark_mode |-> is_dark_mode, page_cache |-> page_cache, spin |-> spin,
     layout |-> layout, scroll_pos |-> scroll_pos, viewport |-> viewport,
     render_timer |-> render_timer, single_shots |-> single_shots,
     insert_order |-> insert_order,
     exc |-> FALSE, uncaught |-> FALSE, fail |-> {},
     status |-> <<>>, wrote |-> None, rasterized |-> <<>>, puts |-> <<>>,
     passes |-> <<>>, shown |-> <<>>, marked |-> None, loaded |-> FALSE,
     left_open |-> FALSE]

\* An exception is raised: it propagates until a try block or a slot boundary.
Raise(s) == [s EXCEPT !.exc = TRUE]
\* "except Exception as e: print(...)"
Caught(s) == [s EXCEPT !.exc = FALSE]
\* The boundary of a slot called by Qt: an exception that reaches it is not
\* seen by the code that emitted the signal.
Slot(s) == IF s.exc THEN [s EXCEPT !.exc = FALSE, !.uncaught = TRUE] ELSE s
\* Sequencing: the rest of a block runs only if no exception is in flight.
Then(s, Rest(_)) == IF s.exc THEN s ELSE Rest(s)

\* status_area.append(message)
Status(s, message) == [s EXCEPT !.status = Append(@, message)]

(***************************************************************************)
(* The fitz document handle.  bool(document) is len(document): it raises   *)
(* ValueError("document closed") on a closed handle and is False for None. *)
(***************************************************************************)
Document(path, content) ==
    [path |-> path, pages |-> content.pages, w |-> content.w, h |-> content.h,
     closed |-> FALSE]
DocClosed(s) == s.pdf_document # None /\ Val(s.pdf_document).closed
DocLen(s) == Len(Val(s.pdf_document).pages)
\* "not self.pdf_document", for a handle that is not closed
DocNone(s) == s.pdf_document = None \/ DocLen(s) = 0

(***************************************************************************)
(* Rational numbers for the zoom level.                                    *)
(***************************************************************************)
RECURSIVE GCD(_, _)
GCD(a, b) == IF b = 0 THEN a ELSE GCD(b, a % b)
Rat(n, d) == LET g == GCD(n, d) IN <<n \div g, d \div g>>
RMul(x, y) == Rat(x[1] * y[1], x[2] * y[2])
RDiv(x, y) == Rat(x[1] * y[2], x[2] * y[1])
RLess(x, y) == x[1] * y[2] < y[1] * x[2]
\* min and max of two rationals; Unbounded is min without its bound x.
Unbounded(x, y) == y
RMin(x, y) == IF RLess(y, x) THEN y ELSE x
RMax(x, y) == IF RLess(x, y) THEN y ELSE x

(***************************************************************************)
(* The page render cache, an OrderedDict.                                  *)
(***************************************************************************)
CacheKeys(c) == {c[i].key : i \in 1..Len(c)}
KeySeq(c) == [i \in 1..Len(c) |-> c[i].key]
CacheGet(c, k) == c[CHOOSE i \in 1..Len(c) : c[i].key = k].pixmap
\* popitem(last=True) drops the back of the dictionary order,
PopNewest(c) == SubSeq(c, 1, Len(c) - 1)
\* popitem(last=False) the front.
PopOldest(c) == Tail(c)
\* page_cache[k] = pixmap, for a key that may or may not be present
CacheSet(c, k, pixmap) ==
    IF k \in CacheKeys(c)
    THEN [i \in 1..Len(c) |-> IF c[i].key = k THEN [key |-> k, pixmap |-> pixmap] ELSE c[i]]
    ELSE Append(c, [key |-> k, pixmap |-> pixmap])
\* del page_cache[k]
CacheDel(c, k) == SelectSeq(c, LAMBDA e : e.key # k)

\* What the rasterizer produces for a page at 2.0 * zoom_level, inverted when
\* the dark theme is active.
Bitmap(page, zoom, dark) == [page |-> page, zoom |-> zoom, dark |-> dark]


(***************************************************************************)
(* The geometry of the continuous view.                                    *)
(***************************************************************************)
\* One page container of scroll_layout, of a fixed height.  The pixmaps set on
\* the page labels are outputs of a handler (the field shown).
Container(height) == [height |-> height]

\* scroll_content.setMinimumHeight(sum(minimumHeight + 10))
ContentHeight(lay) == SumSeq([i \in 1..Len(lay) |-> lay[i].height + 10])
\* The scroll bar's maximum: the content height beyond one viewport.
ScrollMax(lay, vp) == Max(0, ContentHeight(lay) - vp.h)

\* get_visible_pages: the loop over the layout, with its early exit.
RECURSIVE VisibleLoop(_, _, _, _, _, _)
VisibleLoop(lay, i, total_height, viewport_top, viewport_bottom, visible_pages) ==
    IF i > Len(lay) THEN visible_pages
    ELSE LET widget_height == lay[i].height
             widget_top == total_height
             widget_bottom == total_height + widget_height
             is_visible ==
                 \/ (widget_top >= viewport_top /\ widget_top < viewport_bottom)
                 \/ (widget_bottom > viewport_top /\ widget_bottom <= viewport_bottom)
                 \/ (widget_top <= viewport_top /\ widget_bottom >= viewport_bottom)
             found == IF is_visible THEN Append(visible_pages, i - 1)
                      ELSE visible_pages
         IN  IF widget_top > viewport_bottom THEN found
             ELSE VisibleLoop(lay, i + 1, total_height + widget_height,
                              viewport_top, viewport_bottom, found)

\* get_visible_pages, for an open document: the 0-based indices of the
\* containers it finds visible, in layout order.
VisibleFromTop(s) ==
    VisibleLoop(s.layout, 1, 0, 0, s.viewport.h, <<>>)
get_visible_pages(s) ==
    VisibleLoop(s.layout, 1, 0, s.scroll_pos, s.scroll_pos + s.viewport.h, <<>>)

InSeq(x, q) == \E i \in 1..Len(q) : q[i] = x

\* get_most_visible_page: total_height advances only over the visible pages;
\* distances are kept doubled so that the halves stay integers.  best is
\* None or Some(index); min_distance2 is -1 for float('inf').
RECURSIVE MostVisibleLoop(_, _, _, _, _, _, _)
MostVisibleLoop(lay, i, total_height, center2, visible_pages, best_page, min_distance2) ==
    IF i > Len(lay) THEN best_page
    ELSE IF ~InSeq(i - 1, visible_pages)
         THEN MostVisibleLoop(lay, i + 1, total_height, center2, visible_pages,
                              best_page, min_distance2)
         ELSE LET widget_height == lay[i].height
                  distance2 == Abs(center2 - (2 * total_height + widget_height))
                  closer == min_distance2 = -1 \/ distance2 < min_distance2
              IN  MostVisibleLoop(lay, i + 1, total_height + widget_height, center2,
                                  visible_pages,
                                  IF closer THEN Some(i - 1) ELSE best_page,
                                  IF closer THEN distance2 ELSE min_distance2)

get_most_visible_page(s, visible_pages) ==
    IF visible_pages = <<>> THEN None
    ELSE MostVisibleLoop(s.layout, 1, 0, 2 * s.scroll_pos + s.viewport.h,
                         visible_pages, None, -1)

(***************************************************************************)
(* render_page: reuse the cached pixmap or rasterize, insert and evict,    *)
(* then set the pixmap on the page's label.  The whole body is in a try    *)
(* block; a failing rasterization leaves cache and label as they were.     *)
(***************************************************************************)
\* render_page without its try block: a failing rasterization propagates.
RenderFailureEscapes(s, page_num) ==
    IF DocClosed(s) \/ page_num \in s.fail THEN Raise(s)
    ELSE IF DocNone(s) \/ page_num >= DocLen(s) THEN s
    ELSE LET pixmap == Bitmap(Val(s.pdf_document).pages[page_num + 1],
                              s.zoom_level, s.is_dark_mode)
             cache == CacheSet(s.page_cache, page_num, pixmap)
         IN  [s EXCEPT !.page_cache = cache,
                       !.insert_order =
                           IF InSeq(page_num, @) THEN @ ELSE Append(@, page_num),
                       !.rasterized = Append(@, page_num),
                       !.puts = Append(@, [key |-> page_num, hit |-> FALSE,
                                           before |-> KeySeq(s.page_cache),
                                           after |-> KeySeq(cache),
                                           order |-> s.insert_order]),
                       !.shown = Append(@, [key |-> page_num, pixmap |-> pixmap])]
RasterizeAlways(s, page_num) ==
    IF DocClosed(s) THEN Raise(s)
    ELSE IF DocNone(s) \/ page_num >= DocLen(s) THEN s
    ELSE LET pixmap == Bitmap(Val(s.pdf_document).pages[page_num + 1],
                              s.zoom_level, s.is_dark_mode)
             cache == CacheSet(s.page_cache, page_num, pixmap)
         IN  [s EXCEPT !.page_cache = cache,
                       !.insert_order =
                           IF InSeq(page_num, @) THEN @ ELSE Append(@, page_num),
                       !.rasterized = Append(@, page_num),
                       !.puts = Append(@, [key |-> page_num, hit |-> FALSE,
                                           before |-> KeySeq(s.page_cache),
                                           after |-> KeySeq(cache),
                                           order |-> s.insert_order]),
                       !.shown = Append(@, [key |-> page_num, pixmap |-> pixmap])]
render_page(s, page_num) ==
    IF DocClosed(s) THEN Raise(s)
    ELSE IF DocNone(s) \/ page_num >= DocLen(s) THEN s
    ELSE LET hit == page_num \in CacheKeys(s.page_cache)
             show(t, pixmap) ==
                 IF Len(t.layout) > page_num
                 THEN [t EXCEPT !.shown = Append(@, [key |-> page_num, pixmap |-> pixmap])]
                 ELSE t
         IN  IF hit
             THEN show([s EXCEPT !.puts = Append(@,
                            [key |-> page_num, hit |-> TRUE,
                             before |-> KeySeq(s.page_cache),
                             after |-> KeySeq(s.page_cache),
                             order |-> s.insert_order])],
                       CacheGet(s.page_cache, page_num))
             ELSE IF page_num \in s.fail THEN s
             ELSE LET pixmap == Bitmap(Val(s.pdf_document).pages[page_num + 1],
                                       s.zoom_level, s.is_dark_mode)
                      room == IF Len(s.page_cache) > max_cache_size
                              THEN PopOldest(s.page_cache) ELSE s.page_cache
                      cache == CacheSet(room, page_num, pixmap)
                      kept == SelectSeq(s.insert_order, LAMBDA k : k \in CacheKeys(room))
                  IN  show([s EXCEPT !.page_cache = cache,
                                     !.insert_order = Append(kept, page_num),
                                     !.rasterized = Append(@, page_num),
                                     !.puts = Append(@,
                                         [key |-> page_num, hit |-> FALSE,
                                          before |-> KeySeq(s.page_cache),
                                          after |-> KeySeq(cache),
                                          order |-> s.insert_order])],
                           pixmap)


(***************************************************************************)
(* page_spinbox and the slots its valueChanged signal runs.                *)
(* setValue(v) bounds v to the range and emits valueChanged only when the  *)
(* value changes; update_preview is the connected slot.                    *)
(***************************************************************************)
RECURSIVE SpinSetValue(_, _)
RECURSIVE update_preview(_)
RECURSIVE update_page_indicator(_)

SpinSetValue(s, v) ==
    LET bounded == Max(s.spin.minimum, Min(s.spin.maximum, v))
    IN  IF bounded = s.spin.value THEN s
        ELSE Slot(update_preview([s EXCEPT !.spin.value = bounded]))

\* QSpinBox.setMaximum(m): the minimum follows a smaller maximum and the
\* value is bounded to the new range.
SpinSetMaximum(s, m) ==
    LET ranged == [s EXCEPT !.spin.maximum = m,
                            !.spin.minimum = Min(s.spin.minimum, m)]
    IN  SpinSetValue(ranged, s.spin.value)

update_preview(s) ==
    IF DocClosed(s) THEN Raise(s)
    ELSE IF DocNone(s) THEN s
    ELSE LET page_number == s.spin.value - 1
         IN  IF 0 <= page_number /\ page_number < DocLen(s)
             THEN Caught(Then(render_page(s, page_number), update_page_indicator))
             ELSE s

update_page_indicator(s) ==
    IF DocClosed(s) THEN Raise(s)
    ELSE IF DocNone(s) THEN s
    ELSE LET visible_pages == get_visible_pages(s)
             most_visible_page == get_most_visible_page(s, visible_pages)
         IN  IF visible_pages # <<>> /\ most_visible_page # None
             THEN SpinSetValue(s, Val(most_visible_page) + 1)
             ELSE s

(***************************************************************************)
(* The vertical scroll bar.  valueChanged runs, in connection order, the   *)
(* two lambdas that (re)start the render timer and update_page_indicator.  *)
(***************************************************************************)
ScrollSetValueUnarmed(s, v) ==
    LET bounded == Max(0, Min(ScrollMax(s.layout, s.viewport), v))
    IN  IF bounded = s.scroll_pos THEN s
        ELSE Slot(update_page_indicator([s EXCEPT !.scroll_pos = bounded]))
ScrollSetValue(s, v) ==
    LET bounded == Max(0, Min(ScrollMax(s.layout, s.viewport), v))
    IN  IF bounded = s.scroll_pos THEN s
        ELSE Slot(update_page_indicator(
                 [s EXCEPT !.scroll_pos = bounded, !.render_timer = TRUE]))

(***************************************************************************)
(* render_visible_pages: the render pass.                                  *)
(***************************************************************************)
\* "for page_num in range(first_visible, last_visible)": every page of the range
\* that has a container is handed to render_page (the container's first QLabel
\* is the page-number label, which never holds a pixmap).
RECURSIVE RenderRange(_, _, _)
RenderRange(s, page_num, last_visible) ==
    IF page_num >= last_visible \/ s.exc THEN s
    ELSE RenderRange(IF 0 <= page_num /\ page_num < Len(s.layout)
                     THEN render_page(s, page_num) ELSE s,
                     page_num + 1, last_visible)

\* The page-height estimate of the pass.
actual_page_height(s) ==
    IF Len(s.layout) > 0 /\ s.layout[1].height > 0
    THEN s.layout[1].height + PAGE_MARGIN
    ELSE s.viewport.h

first_visible(s) ==
    Max(0, (s.scroll_pos \div actual_page_height(s)) - BUFFER_PAGES)
last_visible(s) ==
    Min(DocLen(s),
        ((s.scroll_pos + s.viewport.h) \div actual_page_height(s)) + BUFFER_PAGES + 1)

\* "Cleanup far-off pages": the keys the pass deletes from the cache.
FarOff(s, first, last) ==
    {page_num \in 0..(DocLen(s) - 1) :
        page_num < first - cleanup_range \/ page_num > last + cleanup_range}

render_visible_pages(s) ==
    IF DocClosed(s) THEN Raise(s)
    ELSE IF DocNone(s) THEN s
    ELSE LET first == first_visible(s)
             last == last_visible(s)
             rendered == RenderRange(s, first, last)
             far == FarOff(s, first, last)
             cleaned == [rendered EXCEPT
                 !.page_cache = SelectSeq(@, LAMBDA e : e.key \notin far),
                 !.insert_order = SelectSeq(@, LAMBDA k : k \notin far),
                 !.passes = Append(@, [first |-> first, last |-> last,
                                       before |-> KeySeq(rendered.page_cache)])]
         IN  IF rendered.exc
             THEN [Caught(rendered) EXCEPT !.render_timer = FALSE]
             ELSE cleaned

(***************************************************************************)
(* setup_continuous_view: one container per page of the document, sized    *)
(* from the viewport width; the scroll bar's signals are blocked while the *)
(* content is replaced, and a render pass is scheduled 50 ms later.        *)
(***************************************************************************)
page_height(doc, vp) == (doc.h * (vp.w - 60)) \div doc.w

setup_continuous_view(s) ==
    IF DocClosed(s) THEN Raise(s)
    ELSE IF DocNone(s) THEN s
    ELSE LET doc == Val(s.pdf_document)
             lay == [i \in 1..Len(doc.pages) |->
                        Container(page_height(doc, s.viewport) + 40)]
         IN  [s EXCEPT !.layout = lay,
                       !.scroll_pos = Min(@, ScrollMax(lay, s.viewport)),
                       !.single_shots = @ + 1]


(***************************************************************************)
(* The recent-files list and its menu.                                     *)
(***************************************************************************)
Exists(s, path) == s.disk[path].kind # "missing"

\* update_recent_files_menu: an action for every listed path that exists.
update_recent_files_menu(s) ==
    [s EXCEPT !.recent_menu = SelectSeq(s.recent_files, LAMBDA f : Exists(s, f))]

add_to_recent_files(s, file_path) ==
    LET others == SelectSeq(s.recent_files, LAMBDA f : f # file_path)
        listed == <<file_path>> \o others
    IN  update_recent_files_menu(
            [s EXCEPT !.recent_files = SubSeq(listed, 1, Min(10, Len(listed)))])

(***************************************************************************)
(* load_pdf, for the file name the dialog returned.                        *)
(***************************************************************************)
\* fitz.open(path): a handle on the file's pages, or an exception.
FitzOpen(s, path) ==
    IF s.disk[path].kind = "pdf"
    THEN [s EXCEPT !.pdf_document = Some(Document(path, s.disk[path])),
                   !.loaded = TRUE,
                   !.left_open = s.pdf_document # None /\ ~Val(s.pdf_document).closed]
    ELSE Raise(s)

\* "if self.pdf_document: self.pdf_document.close()"
CloseIfOpen(s) ==
    IF DocClosed(s) THEN Raise(s)
    ELSE IF DocNone(s) THEN s
    ELSE [s EXCEPT !.pdf_document = Some([Val(@) EXCEPT !.closed = TRUE])]

load_pdf(s, file_name) ==
    LET closed == CloseIfOpen(s)
        opened == Then(closed, LAMBDA t : FitzOpen(t, file_name))
        reset == Then(opened, LAMBDA t :
                     [t EXCEPT !.pdf_path = Some(file_name),
                               !.deleted_pages = {},
                               !.modified_pdf = None,
                               !.page_cache = <<>>,
                               !.insert_order = <<>>])
        ranged == Then(reset, LAMBDA t : SpinSetMaximum(t, DocLen(t)))
        first == Then(ranged, LAMBDA t : SpinSetValue(t, 1))
        view == Then(first, setup_continuous_view)
        listed == Then(view, LAMBDA t : add_to_recent_files(t, file_name))
        told == Then(listed, LAMBDA t : Status(t, "Loaded PDF"))
        body == Then(told, update_page_indicator)
        \* except Exception as e:
        failed == Status(Caught(body), "Error loading PDF")
        dropped == Then(CloseIfOpen(failed), LAMBDA t :
                       [t EXCEPT !.pdf_document = None, !.pdf_path = None])
    IN  IF body.exc THEN dropped ELSE body

(***************************************************************************)
(* open_recent_file, for a path of the Recent Files menu.                  *)
(***************************************************************************)
\* self.update_status_bar(): the class defines no such attribute.
update_status_bar(s) == Raise(s)

open_recent_file(s, file_path) ==
    IF Exists(s, file_path)
    THEN LET pathed == [s EXCEPT !.pdf_path = Some(file_path)]
             opened == FitzOpen(pathed, file_path)
             view == Then(opened, setup_continuous_view)
             bar == Then(view, update_status_bar)
         IN  Then(bar, LAMBDA t : Status(t, "Loaded PDF"))
    ELSE LET told == Status(s, "Error: File not found")
         IN  IF InSeq(file_path, s.recent_files)
             THEN update_recent_files_menu(
                      [told EXCEPT !.recent_files =
                          SelectSeq(@, LAMBDA f : f # file_path)])
             ELSE told

(***************************************************************************)
(* delete_page and save_changes.                                           *)
(***************************************************************************)
\* "for i, page in enumerate(reader.pages): if i + 1 not in pages_to_delete"
RECURSIVE KeepPages(_, _, _)
KeepPages(pages, i, marked) ==
    IF i >= Len(pages) THEN <<>>
    ELSE (IF i + 1 \notin marked THEN <<pages[i + 1]>> ELSE <<>>)
         \o KeepPages(pages, i + 1, marked)

\* delete_page with a Deletion Set that holds the last marked page only.
DeleteForgetsMarks(s) ==
    IF s.pdf_path = None
    THEN Status(s, "Please load a PDF first.")
    ELSE LET page_number == s.spin.value
             marked == [s EXCEPT !.pages_to_delete = Some({page_number}),
                                 !.marked = Some(page_number)]
             file == s.disk[Val(s.pdf_path)]
             kept == KeepPages(file.pages, 0, {page_number})
             built == [marked EXCEPT !.modified_pdf =
                          Some([pages |-> kept, w |-> file.w, h |-> file.h])]
             ranged == SpinSetMaximum(Status(built, "Page marked for deletion."),
                                      Len(kept))
         IN  IF file.kind # "pdf" THEN Raise(marked)
             ELSE Then(ranged, update_preview)

delete_page(s) ==
    IF s.pdf_path = None
    THEN Status(s, "Please load a PDF first.")
    ELSE LET page_number == s.spin.value
             had == IF s.pages_to_delete = None THEN {} ELSE Val(s.pages_to_delete)
             marked == [s EXCEPT !.pages_to_delete = Some(had \cup {page_number}),
                                 !.marked = Some(page_number)]
             file == s.disk[Val(s.pdf_path)]
             kept == KeepPages(file.pages, 0, Val(marked.pages_to_delete))
             built == [marked EXCEPT !.modified_pdf =
                          Some([pages |-> kept, w |-> file.w, h |-> file.h])]
             told == Status(built, "Page marked for deletion.")
             ranged == SpinSetMaximum(told, Len(kept))
         IN  IF file.kind # "pdf" THEN Raise(marked)
             ELSE Then(ranged, update_preview)

save_changes(s) ==
    IF s.modified_pdf = None
    THEN Status(s, "No changes to save.")
    ELSE IF s.pdf_path = None THEN Raise(s)
    ELSE LET new_pdf_path == NewPdfPath(Val(s.pdf_path))
             writer == Val(s.modified_pdf)
             written == Pdf(writer.pages, writer.w, writer.h)
         IN  Status([s EXCEPT !.disk = [p \in DOMAIN s.disk |->
                                           IF p = new_pdf_path THEN written ELSE s.disk[p]],
                              !.wrote = Some([path |-> new_pdf_path,
                                              pages |-> writer.pages])],
                    "Changes saved")


(***************************************************************************)
(* The zoom and theme handlers.                                            *)
(***************************************************************************)
ZoomMin == <<1, 10>>
ZoomMax == <<5, 1>>

\* page_cache.clear()
CacheClear(s) == [s EXCEPT !.page_cache = <<>>, !.insert_order = <<>>]

\* int(center_y * zoom / old_zoom - viewport_height / 2), with center_y =
\* old_pos + viewport_height / 2, computed exactly.
RecentredPos(old_pos, viewport_height, zoom, old_zoom) ==
    LET num == (2 * old_pos + viewport_height) * zoom[1] * old_zoom[2]
               - viewport_height * zoom[2] * old_zoom[1]
        den == 2 * zoom[2] * old_zoom[1]
    IN  IF num >= 0 THEN num \div den ELSE -((-num) \div den)

adjust_zoom(s, factor) ==
    LET old_pos == s.scroll_pos
        old_zoom == s.zoom_level
        zoom == RMax(ZoomMin, RMin(ZoomMax, RMul(s.zoom_level, factor)))
        zoomed == CacheClear([s EXCEPT !.zoom_level = zoom])
        passed == render_visible_pages(zoomed)
    IN  Then(passed, LAMBDA t :
            ScrollSetValue(t, RecentredPos(old_pos, s.viewport.h, zoom, old_zoom)))

zoom_to_fit(s) ==
    IF DocClosed(s) THEN Raise(s)
    ELSE IF DocNone(s) THEN s
    ELSE render_visible_pages(CacheClear(
             [s EXCEPT !.zoom_level =
                 RMul(Rat(s.viewport.h, Val(s.pdf_document).h), <<9, 10>>)]))

zoom_to_width(s) ==
    IF DocClosed(s) THEN Raise(s)
    ELSE IF DocNone(s) THEN s
    ELSE render_visible_pages(CacheClear(
             [s EXCEPT !.zoom_level =
                 RMul(Rat(s.viewport.w, Val(s.pdf_document).w), <<19, 20>>)]))

zoom_in(s) == update_preview([s EXCEPT !.zoom_level = RMul(@, <<6, 5>>)])
zoom_out(s) == update_preview([s EXCEPT !.zoom_level = RDiv(@, <<6, 5>>)])
\* zoom_reset: no shortcut, menu entry or button is connected to it.
zoom_reset(s) == update_preview([s EXCEPT !.zoom_level = <<1, 1>>])

\* wheelEvent with the Control modifier held
wheelEvent(s, angle_delta_y) ==
    IF angle_delta_y > 0 THEN zoom_in(s) ELSE zoom_out(s)

\* toggle_dark_mode (the thumbnails it regenerates are not part of the state)
toggle_dark_mode(s) ==
    update_preview(CacheClear([s EXCEPT !.is_dark_mode = ~@]))

\* resizeEvent, for the new viewport size
resizeEvent(s, vp) ==
    update_preview([s EXCEPT !.viewport = vp,
                             !.scroll_pos = Min(@, ScrollMax(s.layout, vp))])


(***************************************************************************)
(* study_relax_task_manager.py: TaskManagerApp.                            *)
(* A QTime is its number of seconds since midnight; the string QTime       *)
(* toString() gives in the default format is the triple <<HH, mm, ss>>.    *)
(***************************************************************************)
DaySeconds == 86400

toString(time) == <<time \div 3600, (time \div 60) % 60, time % 60>>
fromString(str) == str[1] * 3600 + str[2] * 60 + str[3]
\* QTime.addSecs wraps around midnight.
addSecs(time, secs) == (time + secs + DaySeconds) % DaySeconds

\* The window after init_ui.  op and shown are what the last handler was and
\* the sounds and message boxes it produced; ticks and elapsed count the
\* timeouts since the running phase and the run started, and ended is the
\* phase the last handler ended: its ticks and its configured duration.
TaskManagerInit ==
    [sessions |-> <<>>, current_session_index |-> -1, is_study_time |-> TRUE,
     current_time |-> None, timer |-> FALSE, label |-> toString(0),
     op |-> "init", shown |-> <<>>, ticks |-> 0, elapsed |-> 0, ended |-> None]

Handler(t, op) == [t EXCEPT !.op = op, !.shown = <<>>, !.ended = None]
Show(t, message) == [t EXCEPT !.shown = Append(@, message)]

\* The time string of the phase the session index and is_study_time select.
PhaseString(t) ==
    LET session == t.sessions[t.current_session_index + 1]
    IN  IF t.is_study_time THEN session[1] ELSE session[2]

add_session(t, study_time, relax_time) ==
    [Handler(t, "add_session") EXCEPT
        !.sessions = Append(@, <<toString(study_time), toString(relax_time)>>)]

\* stop_sessions without timer.stop().
StopKeepsTimer(t) ==
    Show([t EXCEPT !.label = toString(0),
                   !.current_session_index = -1, !.is_study_time = TRUE],
         "Stopped")
stop_sessions(t) ==
    Show([t EXCEPT !.timer = FALSE, !.label = toString(0),
                   !.current_session_index = -1, !.is_study_time = TRUE],
         "Stopped")

clear_sessions(t) ==
    stop_sessions([Handler(t, "clear_sessions") EXCEPT
                      !.sessions = <<>>, !.current_session_index = -1,
                      !.is_study_time = TRUE])

start_next_session(t, play_sound) ==
    LET played == IF play_sound THEN Show(t, "alarm") ELSE t
        told == Show(played, IF t.is_study_time THEN "Start Studying" ELSE "Relax")
    IN  [told EXCEPT !.current_time = Some(fromString(PhaseString(t))),
                     !.timer = TRUE, !.ticks = 0]

start_sessions(t) ==
    IF t.sessions = <<>>
    THEN Show(Handler(t, "start_sessions"), "Warning")
    ELSE start_next_session(
             [Handler(t, "start_sessions") EXCEPT
                 !.current_session_index = 0, !.is_study_time = TRUE,
                 !.elapsed = 0],
             FALSE)

StopAtZero(t) ==
    LET time == addSecs(Val(t.current_time), -1)
    IN  [Handler(t, "update_time") EXCEPT
            !.current_time = Some(time), !.label = toString(time),
            !.ticks = @ + 1, !.elapsed = @ + 1, !.timer = (time # 0)]
update_time(t) ==
    LET time == addSecs(Val(t.current_time), -1)
        ticked == [Handler(t, "update_time") EXCEPT
                      !.current_time = Some(time), !.label = toString(time),
                      !.ticks = @ + 1, !.elapsed = @ + 1]
        stopped == [ticked EXCEPT
                       !.timer = FALSE, !.is_study_time = ~@,
                       !.ended = Some([ticks |-> ticked.ticks,
                                       duration |-> fromString(PhaseString(t))])]
        advanced == IF stopped.is_study_time
                    THEN [stopped EXCEPT !.current_session_index = @ + 1]
                    ELSE stopped
    IN  IF time # 0 THEN ticked
        ELSE IF advanced.current_session_index >= Len(advanced.sessions)
             THEN Show(Show(advanced, "alarm"), "Done")
             ELSE start_next_session(advanced, TRUE)

(***************************************************************************)
(* time_difference_calculator.py: TimeDifferenceCalculator.                *)
(* A date-time is [day, sec, ms]: the day number, the second of the day    *)
(* and the millisecond; a timedelta is normalised to days, seconds and     *)
(* microseconds as Python does.                                            *)
(***************************************************************************)
DateTime(day, sec, ms) == [day |-> day, sec |-> sec, ms |-> ms]
\* dt1 > dt2
Later(dt1, dt2) ==
    \/ dt1.day > dt2.day
    \/ dt1.day = dt2.day /\ dt1.sec > dt2.sec
    \/ dt1.day = dt2.day /\ dt1.sec = dt2.sec /\ dt1.ms > dt2.ms

\* dt2 - dt1 for dt2 >= dt1, field by field with borrows.
TimeDelta(dt2, dt1) ==
    LET ms == dt2.ms - dt1.ms
        secs == dt2.sec - dt1.sec - (IF ms < 0 THEN 1 ELSE 0)
        days == dt2.day - dt1.day - (IF secs < 0 THEN 1 ELSE 0)
    IN  [days |-> days,
         seconds |-> IF secs < 0 THEN secs + DaySeconds ELSE secs,
         microseconds |-> (IF ms < 0 THEN ms + 1000 ELSE ms) * 1000]

\* The difference taken as dt2 - dt1 whatever the order of the two.
DifferenceUnordered(dt1, dt2) ==
    LET delta == TimeDelta(dt2, dt1)
        days == delta.days % 365
        remainder == delta.seconds % 3600
    IN  [years |-> delta.days \div 365, months |-> days \div 30,
         days |-> days % 30, hours |-> delta.seconds \div 3600,
         minutes |-> remainder \div 60, seconds |-> remainder % 60]

Difference(dt1, dt2) ==
    LET first == IF Later(dt1, dt2) THEN dt2 ELSE dt1
        second == IF Later(dt1, dt2) THEN dt1 ELSE dt2
        delta == TimeDelta(second, first)
        years == delta.days \div 365
        days == delta.days % 365
        hours == delta.seconds \div 3600
        remainder == delta.seconds % 3600
    IN  [years |-> years, months |-> days \div 30, days |-> days % 30,
         hours |-> hours, minutes |-> remainder \div 60,
         seconds |-> remainder % 60]

\* The window after init_ui: both inputs hold the time of construction.
CalculatorInit ==
    [datetime1 |-> DateTime(0, 0, 0), datetime2 |-> DateTime(0, 0, 0),
     result_label |-> None]

calculate_difference(c) ==
    [c EXCEPT !.result_label = Some(Difference(c.datetime1, c.datetime2))]


(***************************************************************************)
(* Bounds on the inputs.                                                   *)
(***************************************************************************)
\* The values typed into the page spin box: 0 .. MaxSpinInput.
MaxSpinInput == 3
\* The scroll positions the user moves to.
ScrollInputs == {0, 300, 900, 1800}
\* Zoom levels are followed while numerator and denominator stay below this.
MaxZoomTerm == 40
ZoomInRange(z) == z[1] <= MaxZoomTerm /\ z[2] <= MaxZoomTerm
\* The container heights and viewport heights of the visibility specification:
\* documents whose pages differ in size, windows shorter than a page.
BoxHeights == {80, 100, 150}
ViewportHeights == {50, 200}
VisibleScrollInputs == {0, 60, 120, 160}
\* Pending single-shot render timers the model follows.
MaxSingleShots == 1
\* The scroll events counted in a burst: those that arrived while the debounce
\* timer armed by an earlier one was still running (event.burst).
MaxBurst == 2
\* The sessions a run of the task manager has at most, the durations (in
\* seconds) its time inputs are set to, and the timeouts followed in a phase.
MaxSessions == 2
TimeInputs == {0, 2}
MaxTicks == 4
\* The date-times of the calculator's inputs: days around the month and year
\* lengths of the heuristic, seconds around the minute, hour and day.
DayInputs == {0, 1, 29, 30, 364, 365, 760}
SecInputs == {0, 59, 3661, 86399}
MsInputs == {0, 500}
\* The scroll positions of the deletion specification: the top of the
\* document and a position inside its second page.
DeleteScrollInputs == {0, 900}
\* The viewport sizes a resize of the window produces.
ResizeViewports ==
    {[w |-> 660, h |-> 600], [w |-> 960, h |-> 600], [w |-> 460, h |-> 300]}
\* The scroll positions of the range specification: the top, the middle and
\* a position where the viewport ends just below the top of page 25.
RangeScrollInputs == {0, 4800, 9970}
\* The number of handlers a run of a counted specification follows.
MaxEvents == 4

(***************************************************************************)
(* The state after construction, for a given disk and system theme.        *)
(***************************************************************************)
DeleterInitOn(files, dark, counted) ==
    /\ disk = files
    /\ events = (IF counted THEN 0 ELSE -1)
    /\ recent_files = <<>>
    /\ recent_menu = <<>>
    /\ pdf_document = None
    /\ pdf_path = None
    /\ deleted_pages = {}
    /\ pages_to_delete = None
    /\ modified_pdf = None
    /\ zoom_level = <<1, 1>>
    /\ is_dark_mode = dark
    /\ page_cache = <<>>
    /\ spin = [value |-> 0, minimum |-> 0, maximum |-> SpinDefaultMaximum]
    /\ layout = <<>>
    /\ scroll_pos = 0
    /\ viewport = [w |-> 660, h |-> 600]
    /\ render_timer = FALSE
    /\ single_shots = 0
    /\ crashed = FALSE
    /\ insert_order = <<>>
    /\ marks = {}
    /\ event = [op |-> "init", status |-> <<>>, wrote |-> None, rasterized |-> <<>>,
                puts |-> <<>>, passes |-> <<>>, shown |-> <<>>, marked |-> None,
                loaded |-> FALSE, uncaught |-> FALSE, burst |-> 0,
                left_open |-> FALSE, failed |-> {}]

\* The three windows after construction.
InitOn(files, dark, counted) ==
    /\ DeleterInitOn(files, dark, counted)
    /\ tm = TaskManagerInit
    /\ calc = CalculatorInit

(***************************************************************************)
(* One handler run by the event loop: its result becomes the state.  An    *)
(* exception that escapes the handler either aborts the process or is      *)
(* reported and dropped, depending on the Qt binding's policy.  A counted  *)
(* specification follows each run for MaxEvents handlers.                  *)
(***************************************************************************)
Commit(op, result) ==
    LET r == Slot(result)
    IN  /\ ~crashed
        /\ events < MaxEvents
        /\ events' = (IF events < 0 THEN events ELSE events + 1)
        /\ disk' = r.disk
        /\ recent_files' = r.recent_files
        /\ recent_menu' = r.recent_menu
        /\ pdf_document' = r.pdf_document
        /\ pdf_path' = r.pdf_path
        /\ deleted_pages' = r.deleted_pages
        /\ pages_to_delete' = r.pages_to_delete
        /\ modified_pdf' = r.modified_pdf
        /\ zoom_level' = r.zoom_level
        /\ is_dark_mode' = r.is_dark_mode
        /\ page_cache' = r.page_cache
        /\ spin' = r.spin
        /\ layout' = r.layout
        /\ scroll_pos' = r.scroll_pos
        /\ viewport' = r.viewport
        /\ render_timer' = r.render_timer
        /\ single_shots' = Min(r.single_shots, MaxSingleShots)
        /\ insert_order' = r.insert_order
        /\ marks' = (IF r.loaded THEN {} ELSE marks)
                    \cup (IF r.marked = None THEN {} ELSE {Val(r.marked)})
        /\ crashed' \in (IF r.uncaught THEN {TRUE, FALSE} ELSE {FALSE})
        /\ event' = [op |-> op, status |-> r.status, wrote |-> r.wrote,
                     rasterized |-> r.rasterized, puts |-> r.puts,
                     passes |-> r.passes, shown |-> r.shown, marked |-> r.marked,
                     loaded |-> r.loaded, uncaught |-> r.uncaught,
                     left_open |-> r.left_open, failed |-> r.fail,
                     burst |-> IF op # "scroll" THEN event.burst
                               ELSE IF render_timer
                                    THEN Min(event.burst + 1, MaxBurst)
                                    ELSE 1]
        /\ UNCHANGED <<tm, calc>>

(***************************************************************************)
(* The actions: one per user operation or timer.                           *)
(***************************************************************************)
LoadPdf ==
    \E file_name \in AllFiles :
        /\ Exists(Self, file_name)
        /\ Commit("load_pdf", load_pdf(Self, file_name))

OpenRecentFile ==
    \E i \in 1..Len(recent_menu) :
        Commit("open_recent_file", open_recent_file(Self, recent_menu[i]))

DeletePage == Commit("delete_page", delete_page(Self))

SaveChanges == Commit("save_changes", save_changes(Self))

\* The user edits the spin box (typing, the arrows, the go-to-page dialog).
SpinEditIn(values) ==
    \E v \in values :
        /\ v # spin.value
        /\ spin.minimum <= v /\ v <= spin.maximum
        /\ Commit("spin", SpinSetValue(Self, v))

SpinEdit == SpinEditIn(0..MaxSpinInput)

\* A reader who pages forward: the spin box is set to the first page that is
\* not in the cache.
WalkInputs ==
    {v \in 1..spin.maximum :
        /\ v - 1 \notin CacheKeys(page_cache)
        /\ \A u \in 1..(v - 1) : u - 1 \in CacheKeys(page_cache)}

SpinWalk == SpinEditIn(WalkInputs)

\* The user scrolls the preview.
ScrollIn(values) ==
    \E v \in values :
        /\ v # scroll_pos
        /\ v <= ScrollMax(layout, viewport)
        /\ Commit("scroll", ScrollSetValue(Self, v))

Scroll == ScrollIn(ScrollInputs)

\* The debounce timer expires: single-shot, so it is inactive afterwards.
RenderTimerFires ==
    /\ render_timer
    /\ Commit("render_timer", render_visible_pages([Self EXCEPT !.render_timer = FALSE]))

\* The debounce timer expires and the rasterizer fails on one or more pages
\* of the document during the pass (page.get_pixmap raises).
RenderTimerFails ==
    /\ render_timer
    /\ pdf_document # None
    /\ ~DocClosed(Self)
    /\ \E pages \in SUBSET (0..(DocLen(Self) - 1)) :
           /\ pages # {}
           /\ Commit("render_timer",
                     render_visible_pages([Self EXCEPT !.render_timer = FALSE,
                                                       !.fail = pages]))

\* A QTimer.singleShot(50, render_visible_pages) of setup_continuous_view expires.
SingleShotFires ==
    /\ single_shots > 0
    /\ Commit("single_shot", render_visible_pages([Self EXCEPT !.single_shots = @ - 1]))

AdjustZoom ==
    \E factor \in {<<6, 5>>, <<4, 5>>} :
        /\ ZoomInRange(RMul(zoom_level, factor))
        /\ Commit("adjust_zoom", adjust_zoom(Self, factor))

\* adjust_zoom called with a factor far from the buttons' 0.8 and 1.2.
AdjustZoomFar ==
    \E factor \in {<<10, 1>>, <<1, 100>>} :
        Commit("adjust_zoom", adjust_zoom(Self, factor))

ZoomToFit == Commit("zoom_to_fit", zoom_to_fit(Self))

ZoomToWidth == Commit("zoom_to_width", zoom_to_width(Self))

CtrlWheel ==
    \E angle_delta_y \in {-120, 120} :
        /\ ZoomInRange(wheelEvent(Self, angle_delta_y).zoom_level)
        /\ Commit("wheel", wheelEvent(Self, angle_delta_y))

ToggleDarkMode == Commit("toggle_dark_mode", toggle_dark_mode(Self))

\* A handler of the task manager window has run.
TaskManager(result) ==
    /\ tm' = result
    /\ UNCHANGED <<deleter_vars, calc>>

AddSession ==
    \E study_time, relax_time \in TimeInputs :
        /\ Len(tm.sessions) < MaxSessions
        /\ TaskManager(add_session(tm, study_time, relax_time))

ClearSessions == TaskManager(clear_sessions(tm))

StartSessions == TaskManager(start_sessions(tm))

StopSessions == TaskManager(stop_sessions(Handler(tm, "stop_sessions")))

\* The one-second timer of the task manager expires.
Timeout ==
    /\ tm.timer
    /\ tm.ticks < MaxTicks
    /\ TaskManager(update_time(tm))

DateTimeInputs ==
    {DateTime(day, sec, ms) : day \in DayInputs, sec \in SecInputs, ms \in MsInputs}

\* The Calculate Difference button, once per pair of inputs.
CalculateDifference ==
    /\ calc.result_label = None
    /\ calc' = calculate_difference(calc)
    /\ UNCHANGED <<deleter_vars, tm>>

\* Another program removes a file from the disk; os.path.exists and
\* fitz.open see it gone from then on.
RemoveFile ==
    \E path \in AllFiles :
        /\ Exists(Self, path)
        /\ Commit("remove_file", [Self EXCEPT !.disk[path] = Missing])

\* The window is resized and the viewport with it.
Resize ==
    \E vp \in ResizeViewports :
        /\ vp # viewport
        /\ Commit("resize", resizeEvent(Self, vp))

Next ==
    \/ LoadPdf
    \/ OpenRecentFile
    \/ DeletePage
    \/ SaveChanges
    \/ SpinEdit
    \/ Scroll
    \/ RenderTimerFires
    \/ SingleShotFires
    \/ AdjustZoom
    \/ ZoomToFit
    \/ ZoomToWidth
    \/ CtrlWheel
    \/ ToggleDarkMode

\* The document life cycle on a disk of small files, MaxEvents handlers deep.
Init == InitOn(SmallDisk, FALSE, TRUE)

Spec == Init /\ [][Next]_vars

\* Paging forward through a document longer than the cache and back to its
\* first pages, to any depth, with the render pass that follows a load.
InitCache == InitOn(LongDisk, FALSE, FALSE)

NextCache ==
    \/ LoadPdf
    \/ SpinWalk
    \/ SpinEdit
    \/ SingleShotFires

SpecCache == InitCache /\ [][NextCache]_vars

\* adjust_zoom on one document, with any factor and to any depth.
InitZoom == InitOn(ViewDisk, FALSE, FALSE)

NextZoom ==
    \/ LoadPdf
    \/ AdjustZoom
    \/ AdjustZoomFar

SpecZoom == InitZoom /\ [][NextZoom]_vars

\* Scrolling over a.pdf just loaded, for every combination of container
\* heights (one container per page) and every viewport height.
InitVisible ==
    /\ disk = ViewDisk
    /\ events = -1
    /\ recent_files = <<FileA>>
    /\ recent_menu = <<FileA>>
    /\ pdf_document = Some(Document(FileA, ViewDisk[FileA]))
    /\ pdf_path = Some(FileA)
    /\ deleted_pages = {}
    /\ pages_to_delete = None
    /\ modified_pdf = None
    /\ zoom_level = <<1, 1>>
    /\ is_dark_mode = FALSE
    /\ page_cache = <<[key |-> 0, pixmap |-> Bitmap(Page("a", 1), <<1, 1>>, FALSE)]>>
    /\ spin = [value |-> 1, minimum |-> 0, maximum |-> NPagesA]
    /\ layout \in [1..NPagesA -> {Container(h) : h \in BoxHeights}]
    /\ scroll_pos = 0
    /\ viewport \in {[w |-> 660, h |-> h] : h \in ViewportHeights}
    /\ render_timer = FALSE
    /\ single_shots = 1
    /\ crashed = FALSE
    /\ insert_order = <<0>>
    /\ marks = {}
    /\ event = [op |-> "load_pdf", status |-> <<"Loaded PDF">>, wrote |-> None,
                rasterized |-> <<0>>, puts |-> <<>>, passes |-> <<>>,
                shown |-> <<>>, marked |-> None, loaded |-> TRUE,
                uncaught |-> FALSE, burst |-> 0, left_open |-> FALSE,
                failed |-> {}]
    /\ tm = TaskManagerInit
    /\ calc = CalculatorInit

ScrollVisible == ScrollIn(VisibleScrollInputs)

NextVisible ==
    \/ ScrollVisible
    \/ RenderTimerFires
    \/ SingleShotFires

SpecVisible == InitVisible /\ [][NextVisible]_vars

\* The same, with the event loop's guarantee that a running timer expires:
\* weak fairness of RenderTimerFires, WF_vars(RenderTimerFires), with the
\* action's enabling condition written out as the state predicate it is.
TimerPending == render_timer /\ ~crashed /\ events < MaxEvents

SpecDebounce ==
    SpecVisible /\ ([]<>~TimerPending \/ []<><<RenderTimerFires>>_vars)

\* Every zoom operation on one document, MaxEvents handlers deep.
InitZoomAll == InitOn(ViewDisk, FALSE, TRUE)

NextZoomAll ==
    \/ LoadPdf
    \/ AdjustZoom
    \/ AdjustZoomFar
    \/ ZoomToFit
    \/ ZoomToWidth
    \/ CtrlWheel

SpecZoomAll == InitZoomAll /\ [][NextZoomAll]_vars

\* The task manager: sessions are added, started, stopped and cleared while
\* the one-second timer runs.
InitTimer == InitOn(ViewDisk, FALSE, FALSE)

NextTimer ==
    \/ AddSession
    \/ ClearSessions
    \/ StartSessions
    \/ StopSessions
    \/ Timeout

SpecTimer == InitTimer /\ [][NextTimer]_vars

\* The calculator, for every pair of date-times in its inputs.
InitCalculator ==
    /\ DeleterInitOn(ViewDisk, FALSE, FALSE)
    /\ tm = TaskManagerInit
    /\ calc \in [datetime1 : DateTimeInputs, datetime2 : DateTimeInputs,
                 result_label : {None}]

NextCalculator == CalculateDifference

SpecCalculator == InitCalculator /\ [][NextCalculator]_vars

\* Marking pages for deletion across loads of different documents, to any
\* depth.
InitDelete == InitOn(SmallDisk, FALSE, FALSE)

ScrollDelete == ScrollIn(DeleteScrollInputs)

NextDelete ==
    \/ LoadPdf
    \/ ScrollDelete
    \/ DeletePage

SpecDelete == InitDelete /\ [][NextDelete]_vars

\* Loading from the dialog and from the Recent Files menu while files
\* disappear from the disk, MaxEvents handlers deep.
InitRecent == InitOn(SmallDisk, FALSE, TRUE)

NextRecent ==
    \/ LoadPdf
    \/ OpenRecentFile
    \/ RemoveFile

SpecRecent == InitRecent /\ [][NextRecent]_vars

\* Scrolling far into a document of many pages, to any depth, with the
\* render passes of the timers.
InitRange == InitOn(WideDisk, FALSE, FALSE)

ScrollRange == ScrollIn(RangeScrollInputs)

NextRange ==
    \/ LoadPdf
    \/ ScrollRange
    \/ RenderTimerFires
    \/ SingleShotFires

SpecRange == InitRange /\ [][NextRange]_vars

\* Render passes during which the rasterizer fails on some pages, between
\* scrolls over a loaded document, to any depth.
InitFail == InitOn(ViewDisk, FALSE, FALSE)

NextFail ==
    \/ LoadPdf
    \/ Scroll
    \/ RenderTimerFires
    \/ RenderTimerFails
    \/ SingleShotFires

SpecFail == InitFail /\ [][NextFail]_vars

\* Resizing the window around a document, with scrolling and the render
\* passes, MaxEvents handlers deep.
InitResize == InitOn(ViewDisk, FALSE, TRUE)

NextResize ==
    \/ LoadPdf
    \/ Resize
    \/ Scroll
    \/ RenderTimerFires
    \/ SingleShotFires

SpecResize == InitResize /\ [][NextResize]_vars


(***************************************************************************)
(* The page deletion model.                                                *)
(***************************************************************************)
\* A document is loaded: the handle exists and is not closed.
DocumentLoaded == pdf_document # None /\ ~Val(pdf_document).closed

\* The last handler was a delete_page that went past its guard and returned.
DeletePageDone ==
    event.op = "delete_page" /\ event.marked # None /\ ~event.uncaught

\* C1: after every delete_page call on a loaded document, the Modified
\* Document is the sequence of the pages of the document as it was loaded, in
\* their order, whose 1-based number is not in the Deletion Set.
C1_ModifiedIsOriginalMinusDeletionSet ==
    (DocumentLoaded /\ DeletePageDone) =>
        /\ modified_pdf # None
        /\ Val(modified_pdf).pages =
               KeepPages(Val(pdf_document).pages, 0, Val(pages_to_delete))

\* C2: after a delete_page call on a loaded document of n pages, the Modified
\* Document has n - k pages, k being the number of distinct page numbers
\* marked since the document was loaded.
C2_ModifiedHasNMinusKPages ==
    (DocumentLoaded /\ DeletePageDone) =>
        /\ modified_pdf # None
        /\ Len(Val(modified_pdf).pages) =
               Len(Val(pdf_document).pages) - Cardinality(marks)

\* C3: a delete_page call for a page number that was already marked since the
\* document was loaded changes neither the Deletion Set nor the Modified
\* Document.
C3_SecondMarkIsNoOp ==
    [][(/\ DocumentLoaded
        /\ event'.op = "delete_page"
        /\ event'.marked # None
        /\ ~event'.uncaught
        /\ Val(event'.marked) \in marks)
       => (pages_to_delete' = pages_to_delete /\ modified_pdf' = modified_pdf)]_vars

\* The last handler was a save_changes that wrote a file.
Saved == event.op = "save_changes" /\ event.wrote # None

\* C4: the path save_changes writes differs from the path of the original
\* document.
C4_SaveNeverOverwritesOriginal ==
    Saved => Val(event.wrote).path # Val(pdf_path)

\* "_modified" placed immediately before the extension, the last dot of the path.
RECURSIVE LastDot(_, _)
LastDot(path, i) ==
    IF i = 0 THEN 0 ELSE IF path[i] = "." THEN i ELSE LastDot(path, i - 1)

ModifiedSuffix == <<"_", "m", "o", "d", "i", "f", "i", "e", "d">>

BeforeExtension(path) ==
    LET dot == LastDot(path, Len(path))
    IN  SubSeq(path, 1, dot - 1) \o ModifiedSuffix \o SubSeq(path, dot, Len(path))

\* C5: the path save_changes writes is the original path with "_modified"
\* inserted once, immediately before the file extension, and nothing else
\* changed.
C5_SavedPathInsertsModifiedOnce ==
    Saved => Val(event.wrote).path = BeforeExtension(Val(pdf_path))

\* C6: save_changes, invoked when no page has been marked in the currently
\* loaded document, reports "No changes to save." and writes no file.
C6_NothingToSave ==
    (event.op = "save_changes" /\ DocumentLoaded /\ marks = {}) =>
        /\ event.status = <<"No changes to save.">>
        /\ event.wrote = None

C8_CacheWithinCapacity == Len(page_cache) <= max_cache_size

\* The keys an insertion of the last handler removed from the cache.
Evicted(put) ==
    {put.before[j] : j \in {i \in 1..Len(put.before) : ~InSeq(put.before[i], put.after)}}

Evicting(put) == ~put.hit /\ Evicted(put) # {}

\* C9: an insertion that evicts removes exactly one entry, the one inserted
\* earliest among the residents, and a hit leaves the order of the entries as
\* it was: the dictionary order is the order of insertion in every state.
C9_EvictsEarliestInserted ==
    /\ KeySeq(page_cache) = insert_order
    /\ \A i \in 1..Len(event.puts) :
           LET put == event.puts[i]
           IN  /\ put.hit => put.after = put.before
               /\ Evicting(put) =>
                      /\ put.order # <<>>
                      /\ Evicted(put) = {Head(put.order)}
                      /\ Len(put.after) = Len(put.before)

\* An evicting insertion and a hit have both happened in the last handler.
C9_Witness ==
    /\ \E i \in 1..Len(event.puts) : Evicting(event.puts[i])
    /\ \E i \in 1..Len(event.puts) : event.puts[i].hit

\* C10: every bitmap in the cache was rasterized at the current zoom level and
\* in the current theme.
C10_CacheMatchesZoomAndTheme ==
    \A i \in 1..Len(page_cache) :
        /\ page_cache[i].pixmap.zoom = zoom_level
        /\ page_cache[i].pixmap.dark = is_dark_mode


(***************************************************************************)
(* The zoom level.                                                         *)
(***************************************************************************)
\* 0.1 <= z <= 5.0
WithinZoomRange(z) == ~RLess(z, ZoomMin) /\ ~RLess(ZoomMax, z)

\* C11: after every adjust_zoom call, whatever its factor, the zoom level is
\* within [0.1, 5.0].
C11_AdjustZoomClamps ==
    event.op = "adjust_zoom" => WithinZoomRange(zoom_level)

\* adjust_zoom has bounded a product that left the range, at either end.
C11_Witness ==
    /\ event.op = "adjust_zoom"
    /\ zoom_level \in {ZoomMin, ZoomMax}

\* C12: the zoom level is within [0.1, 5.0] in every reachable state.
C12_ZoomAlwaysWithinRange == WithinZoomRange(zoom_level)


(***************************************************************************)
(* The visibility calculator.                                              *)
(***************************************************************************)
\* The boxes of the layout stacked in order: box i (1-based) is
\* [BoxTop(lay, i), BoxTop(lay, i + 1)).
BoxTop(lay, i) == SumSeq([j \in 1..(i - 1) |-> lay[j].height])

\* The 0-based indices of the boxes that overlap [top, bottom), increasing.
Overlapping(lay, top, bottom) ==
    LET indices == [i \in 1..Len(lay) |-> i - 1]
    IN  SelectSeq(indices, LAMBDA k :
            BoxTop(lay, k + 1) < bottom /\ BoxTop(lay, k + 2) > top)

\* C13: for stacked boxes of positive height and a viewport of positive
\* height, get_visible_pages returns the indices of the boxes that overlap
\* [scroll offset, scroll offset + viewport height), in increasing order.
C13_VisibleAreTheOverlapping ==
    get_visible_pages(Self) =
        Overlapping(layout, scroll_pos, scroll_pos + viewport.h)

\* The viewport has been scrolled and ends above the top of the last box but
\* one: the loop's early exit is taken with a box left.
C13_Witness ==
    /\ event.op = "scroll"
    /\ scroll_pos > 0
    /\ get_visible_pages(Self) # <<>>
    /\ BoxTop(layout, Len(layout) - 1) > scroll_pos + viewport.h


(***************************************************************************)
(* The lazy render scheduler.                                              *)
(***************************************************************************)
\* C14: a scroll event (re)arms the debounce timer and runs no render pass;
\* the timer's expiry runs exactly one pass and leaves the timer inactive; the
\* timer is armed only by a scroll or zoom event, never by a pass; and an
\* armed timer does expire.  So a burst of scroll events, each arriving while
\* the timer is running, is served by one pass after its last event.
C14_OnePassPerBurst ==
    /\ [][/\ event'.op = "scroll" => (render_timer' /\ event'.passes = <<>>)
          /\ event'.op = "render_timer" =>
                 (render_timer /\ ~render_timer' /\ Len(event'.passes) = 1)
          /\ (render_timer' /\ ~render_timer) =>
                 event'.op \in {"scroll", "adjust_zoom"}]_vars
    /\ (render_timer ~> ~render_timer)

\* The timer has expired after a burst of two or more scroll events and one
\* pass has run.
C14_Witness ==
    /\ event.op = "render_timer"
    /\ event.burst >= 2
    /\ Len(event.passes) = 1
    /\ ~render_timer

\* C15: a scroll event by itself never renders: the handlers connected to the
\* scroll bar's valueChanged signal do not invoke the rasterizer and leave the
\* page cache as it was; only the timer's expiry does.
C15_ScrollNeverRenders ==
    [][event'.op = "scroll" =>
          (event'.rasterized = <<>> /\ page_cache' = page_cache)]_vars

\* A render pass has just run to its cleanup.
PassDone == event.op \in {"render_timer", "single_shot"} /\ Len(event.passes) = 1

\* The pass rendered range(first, last): its pages are first .. last - 1.
PassFirst == event.passes[1].first
PassLastIndex == event.passes[1].last - 1
InMargin(k) == PassFirst - cleanup_range <= k /\ k <= PassLastIndex + cleanup_range

\* C16: at the end of every render pass over the pages first..last, the cache
\* holds no entry with index < first - 5 or index > last + 5, and every entry
\* resident before the cleanup with an index inside [first - 5, last + 5] is
\* still resident.
C16_CleanupRemovesExactlyOutOfMargin ==
    PassDone =>
        /\ \A k \in CacheKeys(page_cache) : InMargin(k)
        /\ \A i \in 1..Len(event.passes[1].before) :
               InMargin(event.passes[1].before[i]) =>
                   event.passes[1].before[i] \in CacheKeys(page_cache)


(***************************************************************************)
(* Failures.                                                               *)
(***************************************************************************)
\* C17: every user operation completes without an uncaught exception: no
\* handler lets an exception escape its slot, and the process never crashes.
C17_NoUncaughtException == ~event.uncaught /\ ~crashed

\* The step is a load_pdf whose fitz.open failed: the handle it started from
\* could be closed, and no document was opened.
OpenFailedStep ==
    /\ event'.op = "load_pdf"
    /\ ~(pdf_document # None /\ Val(pdf_document).closed)
    /\ ~event'.loaded

\* C18: when opening the document fails during a load, the failure is
\* reported as a status message, the document state is None afterwards, no
\* document handle remains open, and the Deletion Set and the Modified
\* Document are what they were before the load attempt.
C18_FailedOpenLeavesNoDocument ==
    [][OpenFailedStep =>
          /\ InSeq("Error loading PDF", event'.status)
          /\ pdf_document' = None
          /\ pages_to_delete' = pages_to_delete
          /\ deleted_pages' = deleted_pages
          /\ modified_pdf' = modified_pdf]_vars

\* The step is a render pass, run by the debounce timer or by a single shot.
PassStep == event'.op \in {"render_timer", "single_shot"}

\* A render pass started in this state raises: at its guard, on a closed
\* document handle, or in one of its render_page calls.
PassRaises ==
    \/ DocClosed(Self)
    \/ /\ ~DocNone(Self)
       /\ RenderRange(Self, first_visible(Self), last_visible(Self)).exc

\* C19: when a step of a render pass raises, the exception is caught inside
\* the pass, the debounce timer is stopped and no retry is scheduled, and the
\* Deletion Set and the Modified Document are unchanged.
C19_PassFailureIsContained ==
    [][(PassStep /\ PassRaises) =>
          /\ ~event'.uncaught
          /\ ~render_timer'
          /\ single_shots' <= single_shots
          /\ pages_to_delete' = pages_to_delete
          /\ deleted_pages' = deleted_pages
          /\ modified_pdf' = modified_pdf]_vars

\* C20: every operation that loads a document closes the previously open
\* handle before replacing it: no load replaces a handle that is still open.
C20_ReplacedHandleIsClosed ==
    (event.op \in {"load_pdf", "open_recent_file"} /\ event.loaded) =>
        ~event.left_open


(***************************************************************************)
(* The continuous layout.                                                  *)
(***************************************************************************)
\* The layout setup_continuous_view builds for the loaded document in the
\* current viewport.
LayoutForViewport ==
    [i \in 1..Len(Val(pdf_document).pages) |->
        Container(page_height(Val(pdf_document), viewport) + 40)]

\* C21: after a resize event with a document loaded, every page container
\* has the size computed from the new viewport width, and the content height
\* (hence the scroll range) is the one of those containers.
C21_ResizeRebuildsLayout ==
    (event.op = "resize" /\ DocumentLoaded) => layout = LayoutForViewport


(***************************************************************************)
(* The recent-files list.                                                  *)
(***************************************************************************)
\* The last handler opened a document, which is now the loaded one.
LoadSucceeded ==
    /\ event.op \in {"load_pdf", "open_recent_file"}
    /\ event.loaded
    /\ DocumentLoaded
    /\ pdf_path # None

NoPathTwice(q) == \A i, j \in 1..Len(q) : q[i] = q[j] => i = j

\* C22: after a successful load through load_pdf or open_recent_file, the
\* persisted recent-files list has at most 10 entries, holds no path twice
\* and has the path of the document just loaded at its head.
C22_RecentFilesMostRecentFirst ==
    LoadSucceeded =>
        /\ Len(recent_files) <= 10
        /\ NoPathTwice(recent_files)
        /\ recent_files # <<>>
        /\ Head(recent_files) = Val(pdf_path)

\* The last handler wrote the persisted list or rebuilt the menu: a load_pdf
\* that reached add_to_recent_files, or an open_recent_file of a path that
\* is gone.
RecentFilesUpdated ==
    \/ event.op = "load_pdf" /\ InSeq("Loaded PDF", event.status)
    \/ event.op = "open_recent_file" /\ InSeq("Error: File not found", event.status)

\* C23: whenever the recent-files list is updated or its menu is rebuilt,
\* the persisted list holds only paths that exist on disk afterwards.
C23_PersistedListHoldsExistingPaths ==
    RecentFilesUpdated =>
        \A i \in 1..Len(recent_files) : disk[recent_files[i]].kind # "missing"


(***************************************************************************)
(* The Deletion Set across loads.                                          *)
(***************************************************************************)
\* The step is the first delete_page after a load of the document that is
\* open, for the page number the spin box shows, a page of the document.
FirstDeleteAfterLoad ==
    /\ event'.op = "delete_page"
    /\ event'.marked = Some(spin.value)
    /\ marks = {}
    /\ DocumentLoaded
    /\ pdf_path = Some(Val(pdf_document).path)
    /\ spin.value \in 1..Len(Val(pdf_document).pages)

\* C27: loading a document starts from an empty Deletion Set: the first
\* delete_page(p) after a load yields the new document minus page p only.
C27_LoadStartsFromEmptyDeletionSet ==
    [][FirstDeleteAfterLoad =>
          /\ modified_pdf' # None
          /\ Val(modified_pdf').pages =
                 KeepPages(Val(pdf_document).pages, 0, {spin.value})]_vars

\* Every page the writer holds comes from the file at the path: a page
\* records its file by the first character of the file's name.
BuiltFrom(path, writer) ==
    \A i \in 1..Len(writer.pages) : writer.pages[i].src = Head(path)

\* C28: whenever a Modified Document exists, an original path is set and the
\* Modified Document was built from the document at that path.
C28_ModifiedBelongsToCurrentPath ==
    modified_pdf # None =>
        /\ pdf_path # None
        /\ BuiltFrom(Val(pdf_path), Val(modified_pdf))


(***************************************************************************)
(* What a render pass renders.                                             *)
(***************************************************************************)
\* The page indexes of the range of the pass, in order.
PassRange == [i \in 1..(PassLastIndex - PassFirst + 1) |-> PassFirst + i - 1]

\* The keys the insertions after the i-th one of the handler evicted.
EvictedAfter(i) ==
    UNION {Evicted(event.puts[j]) : j \in (i + 1)..Len(event.puts)}

\* C29: a render pass displays every page index of its range, rasterizes a
\* page of the range exactly when it is not resident, displays a resident
\* page from the cache, and leaves every page it rasterized and did not
\* evict resident.
C29_PassRendersOnlyMissingPages ==
    PassDone =>
        /\ KeySeq(event.shown) = PassRange
        /\ KeySeq(event.puts) = PassRange
        /\ \A i \in 1..Len(event.puts) :
               LET put == event.puts[i]
               IN  /\ put.hit <=> InSeq(put.key, put.before)
                   /\ put.hit => ~InSeq(put.key, event.rasterized)
                   /\ ~put.hit =>
                          /\ InSeq(put.key, event.rasterized)
                          /\ put.key \in EvictedAfter(i)
                                 \/ put.key \in CacheKeys(page_cache)
        /\ \A i \in 1..Len(event.rasterized) :
               InSeq(event.rasterized[i], PassRange)

\* A pass has displayed one page from the cache and rasterized another.
C29_Witness ==
    /\ PassDone
    /\ \E i \in 1..Len(event.puts) : event.puts[i].hit
    /\ \E i \in 1..Len(event.puts) : ~event.puts[i].hit

\* C30: every key of the render cache is a page index of the loaded document
\* and its bitmap was rasterized from that page of that document.
C30_CacheBelongsToLoadedDocument ==
    DocumentLoaded =>
        \A i \in 1..Len(page_cache) :
            /\ page_cache[i].key \in 0..(Len(Val(pdf_document).pages) - 1)
            /\ page_cache[i].pixmap.page =
                   Val(pdf_document).pages[page_cache[i].key + 1]


(***************************************************************************)
(* The Study & Relax timer.                                                *)
(***************************************************************************)
\* The step is a handler of the task manager of the given name.
TaskManagerStep(op) == tm'.op = op /\ tm' # tm

\* The running phase is relax of the last session.
LastPhase ==
    tm.current_session_index = Len(tm.sessions) - 1 /\ ~tm.is_study_time

\* The phase after the step is the one after the running phase, started
\* from its configured duration with its notification.
NextPhaseStarted ==
    /\ tm'.timer
    /\ tm'.is_study_time = ~tm.is_study_time
    /\ tm'.current_session_index =
           (IF tm.is_study_time THEN tm.current_session_index
                                ELSE tm.current_session_index + 1)
    /\ tm'.current_time = Some(fromString(PhaseString(tm')))
    /\ InSeq(IF tm'.is_study_time THEN "Start Studying" ELSE "Relax", tm'.shown)

\* C24: after Start the phases run in the order study(s1), relax(s1), ...,
\* study(sn), relax(sn): Start begins study(s1); a timeout that has not
\* counted the phase down to zero leaves the phase running; the timeout that
\* reaches zero starts the next phase, or after relax(sn) shows the 'All
\* sessions completed' notification and stops the timer; and a stopped timer
\* is started again by Start only.
C24_PhasesRunInOrder ==
    [][/\ (TaskManagerStep("start_sessions") /\ tm.sessions # <<>>) =>
              /\ tm'.timer
              /\ tm'.current_session_index = 0
              /\ tm'.is_study_time
              /\ tm'.current_time = Some(fromString(tm.sessions[1][1]))
       /\ TaskManagerStep("update_time") =>
              /\ tm.timer
              /\ addSecs(Val(tm.current_time), -1) # 0 =>
                     /\ tm'.timer
                     /\ tm'.is_study_time = tm.is_study_time
                     /\ tm'.current_session_index = tm.current_session_index
                     /\ tm'.shown = <<>>
              /\ (addSecs(Val(tm.current_time), -1) = 0 /\ ~LastPhase) =>
                     NextPhaseStarted
              /\ (addSecs(Val(tm.current_time), -1) = 0 /\ LastPhase) =>
                     /\ ~tm'.timer
                     /\ InSeq("Done", tm'.shown)
                     /\ tm'.current_session_index = Len(tm.sessions)
       /\ (~tm.timer /\ tm'.timer) => tm'.op = "start_sessions"]_vars

\* A run of two sessions has gone through its four phases and completed.
C24_Witness ==
    /\ tm.op = "update_time"
    /\ InSeq("Done", tm.shown)
    /\ Len(tm.sessions) = 2
    /\ tm.elapsed = 8


\* The sum of the configured study and relax durations, in seconds.
RECURSIVE ConfiguredSeconds(_)
ConfiguredSeconds(sessions) ==
    IF sessions = <<>> THEN 0
    ELSE fromString(Head(sessions)[1]) + fromString(Head(sessions)[2])
             + ConfiguredSeconds(Tail(sessions))

\* C25: a phase configured with d seconds ends after exactly d one-second
\* ticks, for every duration from 00:00:00 to 23:59:59: a running phase has
\* never had more ticks than its configured duration, a phase that has ended
\* has had exactly as many, and the completed run has had as many as the sum
\* of the configured durations.
C25_PhaseEndsAfterItsDuration ==
    /\ tm.timer => tm.ticks <= fromString(PhaseString(tm))
    /\ tm.ended # None => Val(tm.ended).ticks = Val(tm.ended).duration
    /\ (tm.op = "update_time" /\ InSeq("Done", tm.shown)) =>
           tm.elapsed = ConfiguredSeconds(tm.sessions)


(***************************************************************************)
(* The Time Difference Calculator.                                         *)
(***************************************************************************)
\* The whole seconds between the two instants, from the seconds since day 0.
WholeSecondsBetween(dt1, dt2) ==
    LET first == IF Later(dt1, dt2) THEN dt2 ELSE dt1
        second == IF Later(dt1, dt2) THEN dt1 ELSE dt2
        whole == (second.day * DaySeconds + second.sec)
                     - (first.day * DaySeconds + first.sec)
    IN  IF second.ms < first.ms THEN whole - 1 ELSE whole

\* C26: calculate_difference gives the same result when the two date-times
\* are swapped; years*365 + months*30 + days is the number of whole days
\* between the two instants and hours*3600 + minutes*60 + seconds the
\* remaining seconds, with 0 <= days < 30, 0 <= hours < 24, 0 <= minutes < 60
\* and 0 <= seconds < 60.
C26_DifferenceIsSymmetricAndExact ==
    calc.result_label # None =>
        LET result == Val(calc.result_label)
            swapped == calculate_difference(
                           [calc EXCEPT !.datetime1 = calc.datetime2,
                                        !.datetime2 = calc.datetime1])
            between == WholeSecondsBetween(calc.datetime1, calc.datetime2)
        IN  /\ Val(swapped.result_label) = result
            /\ result.years * 365 + result.months * 30 + result.days
                   = between \div DaySeconds
            /\ result.hours * 3600 + result.minutes * 60 + result.seconds
                   = between % DaySeconds
            /\ result.years >= 0 /\ result.months >= 0
            /\ result.days \in 0..29
            /\ result.hours \in 0..23
            /\ result.minutes \in 0..59
            /\ result.seconds \in 0..59

\* The difference of more than a year has been calculated with the later
\* date-time in the first input.
C26_Witness ==
    /\ calc.result_label # None
    /\ Later(calc.datetime1, calc.datetime2)
    /\ Val(calc.result_label).years >= 1
    /\ Val(calc.result_label).months >= 1
    /\ Val(calc.result_label).hours >= 1


(***************************************************************************)
(* The page range of a render pass.                                        *)
(***************************************************************************)
\* C31: after a timer-driven render pass has completed without error, every
\* page that get_visible_pages reports as visible at the current scroll
\* offset lies in the pass's range [first_visible, last_visible) and has its
\* bitmap in the cache.
C31_PassCoversVisiblePages ==
    (PassDone /\ DocumentLoaded) =>
        \A i \in 1..Len(get_visible_pages(Self)) :
            LET k == get_visible_pages(Self)[i]
            IN  /\ PassFirst <= k /\ k <= PassLastIndex
                /\ k \in CacheKeys(page_cache)


(***************************************************************************)
(* The Deletion Set and the page spin box.                                 *)
(***************************************************************************)
\* C32: every element added to the Deletion Set is a valid page number of
\* the loaded document, 1..pageCount, whatever value the page spin box holds
\* when delete_page is invoked.
C32_MarkedIsAPageOfTheDocument ==
    (DocumentLoaded /\ DeletePageDone) =>
        Val(event.marked) \in 1..Len(Val(pdf_document).pages)

\* C33: while a document with n pages is loaded, the range of the page spin
\* box contains every original page number 1..n, so every page that is not
\* yet marked can still be selected.
C33_SpinBoxReachesEveryPage ==
    DocumentLoaded =>
        /\ spin.minimum <= 1
        /\ spin.maximum >= Len(Val(pdf_document).pages)

\* The Deletion Set: empty while the attribute does not exist.
DeletionSet == IF pages_to_delete = None THEN {} ELSE Val(pages_to_delete)

\* C34: the Deletion Set only grows: every delete_page call leaves it a
\* superset of its previous value that holds the page the call marked, and no
\* other operation (load, save, zoom, scroll, theme toggle, render pass)
\* changes it.
C34_DeletionSetOnlyGrows ==
    [][/\ DeletionSet \subseteq DeletionSet'
       /\ event'.op # "delete_page" => pages_to_delete' = pages_to_delete
       /\ (event'.op = "delete_page" /\ event'.marked # None) =>
              pages_to_delete' = Some(DeletionSet \cup {Val(event'.marked)})]_vars

\* A delete_page call has added a second page to a non-empty Deletion Set.
C34_Witness ==
    /\ event.op = "delete_page"
    /\ Cardinality(DeletionSet) = 2


(***************************************************************************)
(* The render pass of adjust_zoom.                                         *)
(***************************************************************************)
\* C35: the render pass run inside adjust_zoom computes its page range from
\* the scroll offset obtained after recentring: the range it rendered is the
\* range of the scroll position adjust_zoom leaves.
C35_ZoomPassUsesRecentredOffset ==
    (event.op = "adjust_zoom" /\ Len(event.passes) = 1 /\ DocumentLoaded) =>
        /\ event.passes[1].first = first_visible(Self)
        /\ event.passes[1].last = last_visible(Self)


(***************************************************************************)
(* The page indicator.                                                     *)
(***************************************************************************)
\* Twice the distance between the viewport centre and the vertical centre of
\* box k (0-based), from the box's top offset in the layout.
CentreDistance2(k) ==
    Abs((2 * scroll_pos + viewport.h)
            - (2 * BoxTop(layout, k + 1) + layout[k + 1].height))

\* The first of the visible pages whose centre is closest to the viewport
\* centre.
ClosestVisiblePage ==
    LET visible == {get_visible_pages(Self)[i] :
                       i \in 1..Len(get_visible_pages(Self))}
    IN  CHOOSE k \in visible :
            \A j \in visible :
                \/ CentreDistance2(k) < CentreDistance2(j)
                \/ CentreDistance2(k) = CentreDistance2(j) /\ k <= j

\* C36: update_page_indicator sets the page spin box to the visible page
\* whose vertical centre, computed from the page's true top offset in the
\* layout, is closest to the viewport centre, the first such page on ties.
C36_SpinBoxShowsClosestPage ==
    (event.op = "scroll" /\ DocumentLoaded /\ get_visible_pages(Self) # <<>>) =>
        spin.value = ClosestVisiblePage + 1


(***************************************************************************)
(* Rasterization failures inside a render pass.                            *)
(***************************************************************************)
\* The step is a render pass during which the rasterizer fails on the pages
\* event'.failed of a loaded document.
FailingPassStep ==
    /\ event'.op = "render_timer"
    /\ event'.failed # {}
    /\ DocumentLoaded

\* The pages of the range of the pass of this step that have a container.
StepRange ==
    {k \in event'.passes[1].first..(event'.passes[1].last - 1) : k < Len(layout)}

\* The pages the pass had to rasterize and could not: in its range, not in
\* the cache, failing.
FailedInPass == {k \in StepRange \cap event'.failed : k \notin CacheKeys(page_cache)}

\* The step's cache insertions start from the cache of before the step and
\* follow one another with nothing in between, up to the cleanup.
PutsAreTheOnlyChanges ==
    LET puts == event'.puts
    IN  /\ puts # <<>> => puts[1].before = KeySeq(page_cache)
        /\ \A i \in 1..(Len(puts) - 1) : puts[i + 1].before = puts[i].after
        /\ event'.passes[1].before =
               (IF puts = <<>> THEN KeySeq(page_cache) ELSE puts[Len(puts)].after)

C38_ActiveTimerHasValidSession ==
    /\ tm.timer =>
           (0 <= tm.current_session_index
               /\ tm.current_session_index < Len(tm.sessions))
    /\ tm.op \in {"stop_sessions", "clear_sessions"} =>
           /\ ~tm.timer
           /\ tm.current_session_index = -1
           /\ tm.is_study_time

\* Stop was pressed one tick into a run of two sessions.
C38_Witness ==
    /\ tm.op = "stop_sessions"
    /\ Len(tm.sessions) = 2
    /\ tm.elapsed = 1
    /\ InSeq("Stopped", tm.shown)

=============================================================================
